---------------------------- MODULE Spec2Model ----------------------------
(***************************************************************************)
(* A model of the CInP client for Go (github.com/cinp/go, cinp.go).        *)
(*                                                                         *)
(* Part I   - the URI grammar: NewURI's regular expression, URI.Split and  *)
(*            URI.Build.                                                   *)
(* Part II  - the protocol client: SetHeader / ClearHeader, request and    *)
(*            Get.                                                         *)
(*                                                                         *)
(* A Go string is modelled as a sequence of one-character strings, so that *)
(* strings.Split, strings.Trim, strings.Join and the regular expression    *)
(* act on characters as they do in the program.                            *)
(***************************************************************************)
EXTENDS Integers, Sequences, FiniteSets, TLC

(***************************************************************************)
(* Bounds of the model.                                                    *)
(***************************************************************************)
\* longest text that follows the root prefix in a path given to Split
MaxRest == 4
\* longest namespace list given to Build
MaxNs == 2
\* longest id list given to Build
MaxIds == 2
\* number of URI operations applied in a row to one input
MaxOps == 2

(***************************************************************************)
(* Characters.  The regular expression of NewURI uses two character        *)
(* classes; every class is represented by a few of its members.            *)
(***************************************************************************)
\* [a-zA-Z0-9\-_.!~*] : namespace segment, model and action characters
SegClass == {"a", "."}
\* [a-zA-Z0-9\-_.!~*\'] : id characters
IdClass == SegClass \cup {"'"}
\* the characters paths are made of: "#" stands for every character that is
\* in neither class and has no role in the expression
PathChars == {"a", "'", "#", "/", ":", "(", ")"}

(***************************************************************************)
(* Helpers on sequences.                                                   *)
(***************************************************************************)
\* every sequence over S of length at most n
SeqUpTo(S, n) == UNION {[1..k -> S] : k \in 0..n}

\* s without its first n elements
DropFirst(s, n) == SubSeq(s, n + 1, Len(s))

\* strings.HasPrefix
HasPrefix(s, prefix) ==
    /\ Len(s) >= Len(prefix)
    /\ SubSeq(s, 1, Len(prefix)) = prefix

\* strings.HasSuffix
HasSuffix(s, suffix) ==
    /\ Len(s) >= Len(suffix)
    /\ SubSeq(s, Len(s) - Len(suffix) + 1, Len(s)) = suffix

\* strings.Trim(s, c) for a cutset of the single character c: removes every
\* leading and every trailing c
RECURSIVE TrimLeft(_, _)
TrimLeft(s, c) ==
    IF s # <<>> /\ Head(s) = c THEN TrimLeft(Tail(s), c) ELSE s

RECURSIVE TrimRight(_, _)
TrimRight(s, c) ==
    IF s # <<>> /\ s[Len(s)] = c
    THEN TrimRight(SubSeq(s, 1, Len(s) - 1), c)
    ELSE s

Trim(s, c) == TrimRight(TrimLeft(s, c), c)

\* strings.Split(s, c) for a separator of the single character c: the pieces
\* between the separators, one more than there are separators; Split of the
\* empty string is the list holding one empty string
RECURSIVE StringsSplit(_, _)
StringsSplit(s, c) ==
    IF \E i \in 1..Len(s) : s[i] = c
    THEN LET i == CHOOSE k \in 1..Len(s) :
                      /\ s[k] = c
                      /\ \A j \in 1..(k - 1) : s[j] # c
         IN  <<SubSeq(s, 1, i - 1)>> \o StringsSplit(DropFirst(s, i), c)
    ELSE <<s>>

\* strings.Join(list, c)
RECURSIVE StringsJoin(_, _)
StringsJoin(list, c) ==
    IF list = <<>> THEN <<>>
    ELSE IF Len(list) = 1 THEN list[1]
    ELSE list[1] \o <<c>> \o StringsJoin(Tail(list), c)

(***************************************************************************)
(* Part I.  The URI grammar.                                               *)
(***************************************************************************)
\* the root paths the client is configured with; "/./" holds the character
\* "." that the regular expression reads as "any character"
RootPaths == {<<"/">>, <<"/", ".", "/">>}

\* an id list is nil (absent) or a list; Go tells the two apart
NilIds == [nil |-> TRUE, list |-> <<>>]
IdList(l) == [nil |-> FALSE, list |-> l]

\* end of the longest run of characters of class starting at position p:
\* the first position at or after p that holds no character of class
RECURSIVE RunEnd(_, _, _)
RunEnd(s, p, class) ==
    IF p <= Len(s) /\ s[p] \in class THEN RunEnd(s, p + 1, class) ELSE p

\* "(" + rootPath + ")" : rootPath is put in the expression as it is, so a
\* "." in it matches any character
RootGroupMatches(root, s) ==
    /\ Len(s) >= Len(root)
    /\ \A i \in 1..Len(root) : root[i] = "." \/ root[i] = s[i]

\* "(([seg]+/)*)" : position after the last "segment/" starting at p
RECURSIVE NamespaceEnd(_, _)
NamespaceEnd(s, p) ==
    LET q == RunEnd(s, p, SegClass)
    IN  IF q > p /\ q <= Len(s) /\ s[q] = "/"
        THEN NamespaceEnd(s, q + 1)
        ELSE p

\* "([id]*:)*" : position after the last "id:" starting at p
RECURSIVE IdItemsEnd(_, _)
IdItemsEnd(s, p) ==
    LET q == RunEnd(s, p, IdClass)
    IN  IF q <= Len(s) /\ s[q] = ":"
        THEN IdItemsEnd(s, q + 1)
        ELSE p

\* "(:([id]*:)*)?" : position after the id clause starting at p, p if none
RecIdEnd(s, p) ==
    IF p <= Len(s) /\ s[p] = ":" THEN IdItemsEnd(s, p + 1) ELSE p

\* "(\([seg]+\))?" : position after the action clause starting at p, p if none
ActionEnd(s, p) ==
    LET q == RunEnd(s, p + 1, SegClass)
    IN  IF /\ p <= Len(s) /\ s[p] = "("
           /\ q > p + 1
           /\ q <= Len(s) /\ s[q] = ")"
        THEN q + 1
        ELSE p

\* uriRegex.FindStringSubmatch(s): the groups the code reads.  The
\* expression is anchored and its parts cannot overlap (no separator is in
\* a character class), so the greedy scan is the only possible match.
\* groups[1] root, groups[2] namespace, groups[4] model, groups[5] rec_id,
\* groups[7] action; matched = FALSE stands for the nil result.
NoMatch ==
    [matched |-> FALSE, root |-> <<>>, namespace |-> <<>>, model |-> <<>>,
     rec_id |-> <<>>, action |-> <<>>]

FindStringSubmatch(root, s) ==
    IF ~RootGroupMatches(root, s) THEN NoMatch
    ELSE LET p1 == Len(root) + 1
             p2 == NamespaceEnd(s, p1)
             p3 == RunEnd(s, p2, SegClass)
             p4 == RecIdEnd(s, p3)
             p5 == ActionEnd(s, p4)
         IN  IF p5 # Len(s) + 1 THEN NoMatch
             ELSE [matched |-> TRUE,
                   root |-> SubSeq(s, 1, p1 - 1),
                   namespace |-> SubSeq(s, p1, p2 - 1),
                   model |-> SubSeq(s, p2, p3 - 1),
                   rec_id |-> SubSeq(s, p3, p4 - 1),
                   action |-> SubSeq(s, p4, p5 - 1)]

\* the errors of Split
ErrNone == "nil"
ErrParse == "unable to parse URI"
ErrRoot == "URI does not start in the rootPath"

SplitError(e) ==
    [namespaceList |-> <<>>, model |-> <<>>, action |-> <<>>,
     ids |-> NilIds, multi |-> FALSE, err |-> e]

\* the id list Split makes of groups[5]
SplitIds(rec_id) ==
    IF rec_id # <<>>
    THEN IdList(StringsSplit(Trim(rec_id, ":"), ":"))
    ELSE NilIds

\* RootCheck without the comparison: any prefix the expression matches passes
RootCheckSkipped(root, groups) == TRUE

\* the check of groups[1] against u.rootPath
RootCheck(root, groups) == groups.root = root

\* URI.Split
Split(root, s) ==
    LET groups == FindStringSubmatch(root, s)
    IN  IF ~groups.matched THEN SplitError(ErrParse)
        ELSE IF ~RootCheck(root, groups) THEN SplitError(ErrRoot)
        ELSE LET ids == SplitIds(groups.rec_id)
             IN  [namespaceList |->
                      IF groups.namespace # <<>>
                      THEN StringsSplit(Trim(groups.namespace, "/"), "/")
                      ELSE <<>>,
                  model |-> groups.model,
                  action |->
                      IF groups.action # <<>>
                      THEN SubSeq(groups.action, 2, Len(groups.action) - 1)
                      ELSE <<>>,
                  ids |-> ids,
                  multi |-> Len(ids.list) > 1,
                  err |-> ErrNone]

\* Build without the test of model: the model, the ids and the action are
\* appended whatever model is
BuildWithoutModelTest(root, namespace, model, action, ids) ==
    (IF Len(namespace) > 0
     THEN root \o StringsJoin(namespace, "/") \o <<"/">>
     ELSE root)
    \o model
    \o (IF Len(ids.list) > 0
        THEN <<":">> \o StringsJoin(ids.list, ":") \o <<":">>
        ELSE <<>>)
    \o (IF action # <<>> THEN <<"(">> \o action \o <<")">> ELSE <<>>)

\* URI.Build
Build(root, namespace, model, action, ids) ==
    LET withNs == IF Len(namespace) > 0
                  THEN root \o StringsJoin(namespace, "/") \o <<"/">>
                  ELSE root
    IN  IF model = <<>> THEN withNs
        ELSE withNs \o model
               \o (IF Len(ids.list) > 0
                   THEN <<":">> \o StringsJoin(ids.list, ":") \o <<":">>
                   ELSE <<>>)
               \o (IF action # <<>>
                   THEN <<"(">> \o action \o <<")">>
                   ELSE <<>>)

\* what ExtractIds returns: the ids (nil with an error) and the error
Extracted(ids, err) == [ids |-> ids, err |-> err]

\* the loop of URI.ExtractIds over the paths left, result holding the ids
\* appended so far
RECURSIVE ExtractLoop(_, _, _)
ExtractLoop(root, uriList, result) ==
    IF uriList = <<>> THEN Extracted(IdList(result), ErrNone)
    ELSE LET groups == FindStringSubmatch(root, Head(uriList))
         IN  IF ~groups.matched THEN Extracted(NilIds, ErrParse)
             ELSE ExtractLoop(root, Tail(uriList),
                      IF groups.rec_id # <<>>
                      THEN result \o StringsSplit(Trim(groups.rec_id, ":"), ":")
                      ELSE result)

\* URI.ExtractIds
ExtractIds(root, uriList) == ExtractLoop(root, uriList, <<>>)

\* what UpdateIDs returns: the path ("" with an error) and the error
Updated(path, err) == [path |-> path, err |-> err]

\* URI.UpdateIDs
UpdateIDs(root, u, ids) ==
    LET s == Split(root, u)
    IN  IF s.err # ErrNone THEN Updated(<<>>, s.err)
        ELSE Updated(Build(root, s.namespaceList, s.model, s.action, ids),
                     ErrNone)

\* the nesting of groups after the characters of s are read at the nesting
\* d: "(" opens a group and ")" closes one; -1 once a ")" had no group to
\* close
RECURSIVE GroupDepth(_, _)
GroupDepth(s, d) ==
    IF d < 0 THEN 0 - 1
    ELSE IF s = <<>> THEN d
    ELSE GroupDepth(Tail(s), CASE Head(s) = "(" -> d + 1
                               [] Head(s) = ")" -> d - 1
                               [] OTHER -> d)

\* regexp.Compile("^(" + rootPath + ")(...)...$") returns an error.  The
\* part after rootPath is well formed and begins with the ")" of the group
\* "^(" opened; of the characters of the root paths explored only "(" and
\* ")" can spoil the expression, which compiles when rootPath leaves
\* exactly that one group open.
CompileFails(rootPath) == GroupDepth(rootPath, 1) # 1

\* what NewURI returns: a URI (nil with an error) and the error
NewURIResult(isNil, rootPath, err) ==
    [nil |-> isNil, rootPath |-> rootPath, err |-> err]

\* rootPath == "" || rootPath[len(rootPath)-1] != '/' || rootPath[0] != '/'
RootPathRefused(rootPath) ==
    rootPath = <<>> \/ rootPath[Len(rootPath)] # "/" \/ rootPath[1] # "/"

\* NewURI
NewURI(rootPath) ==
    IF RootPathRefused(rootPath)
    THEN NewURIResult(TRUE, <<>>, "root path must start and end with '/'")
    ELSE IF CompileFails(rootPath)
    THEN NewURIResult(TRUE, <<>>, "error parsing regexp")
    ELSE NewURIResult(FALSE, rootPath, ErrNone)

(***************************************************************************)
(* Part II.  The protocol client.                                          *)
(***************************************************************************)
\* const httpTrue
httpTrue == "True"

\* "http://" and "https://" as strings of characters
HttpPrefix == <<"h", "t", "t", "p", ":", "/", "/">>
HttpsPrefix == <<"h", "t", "t", "p", "s", ":", "/", "/">>

\* what NewCInP returns: a client (nil with an error) with its host and the
\* rootPath of its URI, and the error
NewCInPResult(isNil, host, rootPath, err) ==
    [nil |-> isNil, host |-> host, rootPath |-> rootPath, err |-> err]

\* NewCInP
NewCInP(host, rootPath) ==
    IF ~(HasPrefix(host, HttpPrefix) \/ HasPrefix(host, HttpsPrefix))
    THEN NewCInPResult(TRUE, <<>>, <<>>, "host does not start with http(s)://")
    ELSE IF HasSuffix(host, <<"/">>)
    THEN NewCInPResult(TRUE, <<>>, <<>>, "host name must not end with '/'")
    ELSE LET u == NewURI(rootPath)
         IN  IF u.err # ErrNone
             THEN NewCInPResult(TRUE, <<>>, <<>>, u.err)
             ELSE NewCInPResult(FALSE, host, u.rootPath, ErrNone)

\* header names as callers spell them in SetHeader, ClearHeader and the
\* extra headers of a call
HeaderNames == {"content-type", "Auth-Id", "auth-id"}
HeaderValues == {"v1", "v2"}

\* http.Header.Set files a value under the canonical form of the name
\* (textproto.CanonicalMIMEHeaderKey): the first letter and every letter
\* after a hyphen in upper case, the others in lower case
CanonicalKey(name) ==
    CASE name = "content-type" -> "Content-Type"
      [] name = "auth-id" -> "Auth-Id"
      [] name = "CInP-Version" -> "Cinp-Version"
      [] OTHER -> name

\* the headers request sets last, under the names http.Header.Set gives them
ProtocolHeaders ==
    (CanonicalKey("User-Agent") :> "golang CInP client")
    @@ (CanonicalKey("Accepts") :> "application/json")
    @@ (CanonicalKey("Accept-Charset") :> "utf-8")
    @@ (CanonicalKey("CInP-Version") :> "1.0")
    @@ (CanonicalKey("Content-Type") :> "application/json;charset=utf-8")

\* a map of headers with no entry
NoHeaders == [n \in {} |-> "v1"]

\* the header maps `for k, v := range m { req.Header.Set(k, v) }` can leave
\* in a request that had none: Go ranges over a map in no fixed order, so
\* of two names with one canonical form either value may be set last
RangeSet(m) ==
    LET keys == {CanonicalKey(k) : k \in DOMAIN m}
    IN  {f \in [keys -> HeaderValues] :
            \A h \in keys :
               \E k \in DOMAIN m : CanonicalKey(k) = h /\ m[k] = f[h]}

\* Header.Set of every entry of later over the header earlier
SetOver(earlier, later) ==
    [h \in DOMAIN earlier \cup DOMAIN later |->
        IF h \in DOMAIN later THEN later[h] ELSE earlier[h]]

\* the headers of the request: the client's, then the call's, then the
\* protocol's
RequestHeaders(fromClient, fromCall) ==
    SetOver(SetOver(fromClient, fromCall), ProtocolHeaders)

\* JSON values of the fields of a body
Absent == [type |-> "absent", v |-> ""]
Str(v) == [type |-> "string", v |-> v]
Num == [type |-> "number", v |-> "7"]

\* response bodies: empty (the decoder returns EOF), not JSON, a JSON array,
\* JSON null, or a JSON object with or without "message" and "trace"
PlainBody(kind) == [json |-> kind, message |-> Absent, trace |-> Absent]
ObjectBody(message, trace) ==
    [json |-> "object", message |-> message, trace |-> trace]
Bodies ==
    {PlainBody(k) : k \in {"eof", "syntax", "array", "null"}}
    \cup {ObjectBody(m, t) : m \in {Absent, Str("m1"), Str("m2"), Num},
                             t \in {Absent, Str("t1")}}

\* the response headers request reads
ResultHeaderNames ==
    {"Position", "Count", "Total", "Type", "Multi-Object", "Object-Id", "verb"}

\* status codes: those request knows and two it does not
Statuses == {200, 201, 202, 204, 400, 401, 403, 404, 500, 503}

\* the errors of the client
Err(kind, msg, trace, code) ==
    [kind |-> kind, msg |-> msg, trace |-> trace, code |-> code]
NoErr == Err("nil", "", "", 0)
\* message.(string) on a value that is no string: the call does not return
Panic == Err("panic", "interface conversion", "", 0)

\* json.Decoder.Decode of body into the target fails with an error other
\* than EOF; the target is a map (of the fields of an object)
DecodeFails(body, target) ==
    \/ body.json = "syntax"
    \/ body.json = "array" /\ target \in {"map", "object"}

\* fmt.Sprintf("%v", resultData) of a decoded map without "message"
SprintMap(body) ==
    IF body.trace = Absent THEN "map[]" ELSE "map[trace:t1]"

\* StatusSwitch with the case of 403 left out: 403 falls to the default
StatusSwitchWithout403(status) ==
    CASE status = 401 -> Err("InvalidSession", "", "", 0)
      [] status = 404 -> Err("NotFound", "", "", 0)
      [] status \in {200, 201, 202, 400, 500} -> NoErr
      [] OTHER -> Err("Unhandled", "HTTP Code unhandled", "", status)

\* StatusSwitch with 204 among the codes that go on
StatusSwitchWith204(status) ==
    CASE status = 401 -> Err("InvalidSession", "", "", 0)
      [] status = 403 -> Err("NotAuthorized", "", "", 0)
      [] status = 404 -> Err("NotFound", "", "", 0)
      [] status \in {200, 201, 202, 204, 400, 500} -> NoErr
      [] OTHER -> Err("Unhandled", "HTTP Code unhandled", "", status)

\* switch res.StatusCode: the error of a status, NoErr when request goes on
StatusSwitch(status) ==
    CASE status = 401 -> Err("InvalidSession", "", "", 0)
      [] status = 403 -> Err("NotAuthorized", "", "", 0)
      [] status = 404 -> Err("NotFound", "", "", 0)
      [] status \in {200, 201, 202, 400, 500} -> NoErr
      [] OTHER -> Err("Unhandled", "HTTP Code unhandled", "", status)

\* the error request makes of the body of a 400 or 500 response
BodyError(status, body) ==
    IF DecodeFails(body, "map")
    THEN Err("Parse", "unable to parse response", "", status)
    ELSE IF status = 400
    THEN IF body.message # Absent
         THEN IF body.message.type = "string"
              THEN Err("InvalidRequest", body.message.v, "", 0)
              ELSE Panic
         ELSE Err("InvalidRequest", SprintMap(body), "", 0)
    ELSE IF body.message # Absent
         THEN IF body.message.type # "string" THEN Panic
              ELSE IF body.trace # Absent
              THEN Err("ServerError", body.message.v, body.trace.v, 0)
              ELSE Err("ServerError", body.message.v, "", 0)
         ELSE Err("ServerError", SprintMap(body), "", 0)

\* what request returns, with what it did on the way: the request it sent
\* (sent = FALSE: none) and whether it gave the body to the JSON decoder
Returned(code, hdrs, err, out, sent, decoded) ==
    [code |-> code, headers |-> hdrs, err |-> err, out |-> out,
     sent |-> sent, decoded |-> decoded]

NoWire == [sent |-> FALSE, verb |-> "", uri |-> <<>>, hdr |-> NoHeaders]
NoOut == PlainBody("eof")

\* the HTTP requests made by a call of request: its one call of client.Do
Sends(q) == IF q.sent.sent THEN 1 ELSE 0

\* res.Header.Get of a header the response does not carry: the empty
\* string, which for Object-Id (a path, hence a sequence of characters) is
\* the empty sequence
EmptyHeader(v) == IF v = "Object-Id" THEN <<>> ELSE ""

\* CInP.request.  fromClient and fromCall are the headers the two range
\* loops leave; r is the answer of the transport.
Request(verb, u, dataIn, dataOut, fromClient, fromCall, r) ==
    IF dataIn = "unmarshalable"
    THEN Returned(0, NoHeaders, Err("Marshal", "json", "", 0), NoOut,
                  NoWire, FALSE)
    ELSE
    LET sent == [sent |-> TRUE, verb |-> verb, uri |-> u,
                 hdr |-> RequestHeaders(fromClient, fromCall)]
        fail(e, decoded) == Returned(0, NoHeaders, e, NoOut, sent, decoded)
    IN  IF r.transport
        THEN fail(Err("Transport", "client.Do", "", 0), FALSE)
        ELSE IF StatusSwitch(r.status) # NoErr
        THEN fail(StatusSwitch(r.status), FALSE)
        ELSE IF r.status = 400 \/ r.status = 500
        THEN fail(BodyError(r.status, r.body), TRUE)
        ELSE IF dataOut # "nil" /\ DecodeFails(r.body, dataOut)
        THEN fail(Err("Parse", "unable to parse response", "", 0), TRUE)
        ELSE Returned(r.status,
                      [v \in ResultHeaderNames |->
                          IF v \in DOMAIN r.hdr THEN r.hdr[v]
                          ELSE EmptyHeader(v)],
                      NoErr,
                      IF dataOut # "nil" THEN r.body ELSE NoOut,
                      sent,
                      dataOut # "nil")

\* objects: nil, or an object with its URI and the data decoded into it
NilObject == [nil |-> TRUE, uri |-> <<>>, data |-> NoOut]
Object(u, data) == [nil |-> FALSE, uri |-> u, data |-> data]

\* IsMulti comparing with another spelling of the value
IsMultiLowerCase(hdrs) == hdrs["Multi-Object"] = "true"

\* the test of the Multi-Object response header
IsMulti(hdrs) == hdrs["Multi-Object"] = httpTrue

\* what an operation returns: an object (or nil) and an error
Result(obj, err) == [obj |-> obj, err |-> err]

\* CInP.Get, given what its call of request returned.  The object is the
\* MappedObject of a uri with no registered type.
GetResult(u, q) ==
    IF q.err # NoErr THEN Result(NilObject, q.err)
    ELSE IF q.code # 200
    THEN Result(NilObject, Err("UnexpectedCode", "unexpected HTTP code", "", q.code))
    ELSE IF IsMulti(q.headers)
    THEN Result(NilObject, Err("MultiObject", "detected multi object", "", 0))
    ELSE Result(Object(u, q.out), NoErr)

\* CInP.Create, given what its call of request returned; root is the
\* rootPath of cinp.uri
CreateResult(root, q) ==
    IF q.err # NoErr THEN Result(NilObject, q.err)
    ELSE IF q.code # 201
    THEN Result(NilObject, Err("UnexpectedCode", "unexpected HTTP code", "", q.code))
    ELSE LET s == Split(root, q.headers["Object-Id"])
         IN  IF s.err # ErrNone
             THEN Result(NilObject, Err("Split", s.err, "", 0))
             ELSE IF ~s.ids.nil /\ Len(s.ids.list) # 1
             THEN Result(NilObject,
                         Err("NotOne", "Create did not create any/one object", "", 0))
             ELSE Result(Object(q.headers["Object-Id"], q.out), NoErr)

\* UpdateResult without the test of the Multi-Object header
UpdateResultWithoutMultiTest(u, q) ==
    IF q.err # NoErr THEN Result(NilObject, q.err)
    ELSE IF q.code # 200
    THEN Result(NilObject, Err("UnexpectedCode", "unexpected HTTP code", "", q.code))
    ELSE Result(Object(u, q.out), NoErr)

\* CInP.Update, given what its call of request returned; u is the URI of
\* the object
UpdateResult(u, q) ==
    IF q.err # NoErr THEN Result(NilObject, q.err)
    ELSE IF q.code # 200
    THEN Result(NilObject, Err("UnexpectedCode", "unexpected HTTP code", "", q.code))
    ELSE IF IsMulti(q.headers)
    THEN Result(NilObject, Err("MultiObject", "detected multi object", "", 0))
    ELSE Result(Object(u, q.out), NoErr)

\* CInP.Call: it returns an error only
CallResult(q) ==
    IF q.err # NoErr THEN Result(NilObject, q.err)
    ELSE IF q.code # 200
    THEN Result(NilObject, Err("UnexpectedCode", "unexpected HTTP code", "", q.code))
    ELSE IF IsMulti(q.headers)
    THEN Result(NilObject, Err("MultiObject", "detected multi object", "", 0))
    ELSE Result(NilObject, NoErr)

\* the extra headers of UpdateMulti and CallMulti
MultiHeaders == "Multi-Object" :> httpTrue

\* CInP.UpdateMulti and CInP.CallMulti: the same tests in both
MultiResult(q) ==
    IF q.err # NoErr THEN Result(NilObject, q.err)
    ELSE IF q.code # 200
    THEN Result(NilObject, Err("UnexpectedCode", "unexpected HTTP code", "", q.code))
    ELSE IF ~IsMulti(q.headers)
    THEN Result(NilObject, Err("NoMulti", "no multi result detected", "", 0))
    ELSE Result(NilObject, NoErr)

\* DescribeResult testing the code before the error
DescribeResultCodeFirst(q) ==
    IF q.code # 200
    THEN Result(NilObject,
                Err("UnexpectedCode", "unexpected HTTP Code for DESCRIBE", "", q.code))
    ELSE Result(NilObject, q.err)

\* CInP.Describe: it returns the description (nil with an error), the Type
\* header and the error
DescribeResult(q) ==
    IF q.err # NoErr THEN Result(NilObject, q.err)
    ELSE IF q.code # 200
    THEN Result(NilObject,
                Err("UnexpectedCode", "unexpected HTTP Code for DESCRIBE", "", q.code))
    ELSE Result(NilObject, NoErr)

\* DeleteResult passing on what request returned, without a test of its own
DeleteResultWithoutCodeTest(q) == Result(NilObject, q.err)

\* CInP.Delete and CInP.DeleteURI: the same tests in both
DeleteResult(q) ==
    IF q.err # NoErr THEN Result(NilObject, q.err)
    ELSE IF q.code # 200
    THEN Result(NilObject, Err("UnexpectedCode", "unexpected HTTP code", "", q.code))
    ELSE Result(NilObject, NoErr)

\* the field data of the object the caller gives to Create and Update
CallerData == ObjectBody(Str("m0"), Absent)

\* json.Decoder.Decode of body into an object that holds data: the fields
\* of a JSON object replace those of the same name, and any other body
\* (none, null, or one the decoder refuses) leaves the object as it is
Decoded(data, body) ==
    IF body.json # "object" THEN data
    ELSE [json |-> "object",
          message |-> IF body.message # Absent THEN body.message
                      ELSE data.message,
          trace |-> IF body.trace # Absent THEN body.trace ELSE data.trace]

\* the caller's object after request was given it as dataOut: request
\* decodes the body of a 200, 201 or 202 response into it (line 225)
DecodedInto(before, q) ==
    Object(before.uri,
           IF q.err = NoErr THEN Decoded(before.data, q.out) ELSE before.data)

\* the caller's object after Create: object.SetURI(headers["Object-Id"])
\* when Create succeeds
ObjectAfterCreate(before, q, g) ==
    Object(IF g.err = NoErr THEN q.headers["Object-Id"] ELSE before.uri,
           DecodedInto(before, q).data)

\* the caller's object after Update
ObjectAfterUpdate(before, q) == DecodedInto(before, q)

(***************************************************************************)
(* Part III.  Listing: List, and the producers of ListIds and ListObjects. *)
(***************************************************************************)
\* most items the server holds
MaxItems == 3
\* largest chunk size given to ListIds and ListObjects
MaxChunk == 2

\* the chunk size used when the one given is below 1
DefaultChunk == 50

\* the uri that is listed: a model under the root "/"
ListURI == <<"/", "a">>

\* the id of the i-th item of the server and its path, uri + ":" + id + ":"
ItemId(i) == [k \in 1..i |-> "a"]
ItemPath(i) == ListURI \o <<":">> \o ItemId(i) \o <<":">>

\* what the server holds: n items, the last of them possibly a path that is
\* outside the grammar
Items(n) == [i \in 1..n |-> ItemPath(i)]
Garbled(n) == [i \in 1..n |-> IF i = n THEN <<"/", "#">> ELSE ItemPath(i)]
ServerInputs == {Items(n) : n \in 0..MaxItems} \cup {Garbled(n) : n \in 1..MaxItems}

\* the pages a server can return: the runs of consecutive items it holds
Pages ==
    UNION {{SubSeq(h, i, j) : i \in 1..(Len(h) + 1), j \in 0..Len(h)} :
              h \in ServerInputs}

\* cinp.ExtractIds(itemList) for every page, the client of the producers
\* having the rootPath "/"
ExtractedPage == [itemList \in Pages |-> ExtractIds(<<"/">>, itemList)]

\* a response header that holds a number, and one that is missing
NumberHeader(v) == [text |-> "number", v |-> v]
MissingHeader == [text |-> "", v |-> 0]

\* strconv.Atoi of a header fails
AtoiFails(h) == h.text # "number"

\* an answer to LIST: an error of the transport, or a status, a body (a
\* JSON array of the items, or no JSON) and the three headers
ListAnswer(transport, status, json, items, hdr) ==
    [transport |-> transport, status |-> status, json |-> json,
     items |-> items, hdr |-> hdr]

\* the page a server holding held gives for position and count: the items
\* from position on, count of them at most, with the position asked for,
\* the number of items returned and the number of items held
PageItems(held, position, count) ==
    SubSeq(held, position + 1,
           IF position + count < Len(held) THEN position + count ELSE Len(held))
PageHeaders(held, position, count) ==
    [Position |-> NumberHeader(position),
     Count |-> NumberHeader(Len(PageItems(held, position, count))),
     Total |-> NumberHeader(Len(held))]

\* a server that holds items past position answers with no item and a
\* Count of 0
EmptyPage(held, position, count) ==
    ListAnswer(FALSE, 200, "array", <<>>,
               [PageHeaders(held, position, count) EXCEPT
                   !.Count = NumberHeader(0)])

\* the answer reports a Count other than the number of items the server
\* had to give for position and count
Misreports(a, held, position, count) ==
    /\ ~a.transport /\ a.status = 200 /\ a.json = "array"
    /\ ~AtoiFails(a.hdr.Count)
    /\ a.hdr.Count.v # Len(PageItems(held, position, count))

\* the answers the transport may give to LIST: only its error once the
\* context is cancelled; otherwise the page under any status, possibly
\* with a body that is no JSON or without one of the headers, or an empty
\* page
ListAnswers(held, position, count, ctxDone) ==
    LET full == PageHeaders(held, position, count)
        page == PageItems(held, position, count)
        fail == ListAnswer(TRUE, 0, "eof", <<>>, full)
    IN  IF ctxDone THEN {fail}
        ELSE {fail}
             \cup {ListAnswer(FALSE, st, "array", page, full) : st \in Statuses}
             \cup {ListAnswer(FALSE, 200, "syntax", <<>>, full)}
             \cup {ListAnswer(FALSE, 200, "array", page,
                              [full EXCEPT ![h] = MissingHeader]) :
                      h \in {"Position", "Count", "Total"}}
             \cup {EmptyPage(held, position, count)}

\* what List returns
Listed(items, position, count, total, err) ==
    [items |-> items, position |-> position, count |-> count,
     total |-> total, err |-> err]
ListError(e) == Listed(<<>>, 0, 0, 0, e)

\* ListRefuses testing the position only
ListRefusesPositionOnly(position, count) == position < 0

\* position < 0 || count < 0: List returns before it makes a request
ListRefuses(position, count) == position < 0 \/ count < 0

\* CInP.List, given the answer to its request
List(position, count, a) ==
    IF ListRefuses(position, count)
    THEN ListError(Err("Argument", "position and count must be greater than 0", "", 0))
    ELSE IF a.transport
    THEN ListError(Err("Transport", "client.Do", "", 0))
    ELSE IF StatusSwitch(a.status) # NoErr
    THEN ListError(StatusSwitch(a.status))
    ELSE IF a.status = 400 \/ a.status = 500
    THEN ListError(BodyError(a.status, PlainBody("eof")))
    ELSE IF DecodeFails(PlainBody(a.json), "list")
    THEN ListError(Err("Parse", "unable to parse response", "", 0))
    ELSE IF a.status # 200
    THEN ListError(Err("UnexpectedCode", "unexpected HTTP code", "", a.status))
    ELSE IF AtoiFails(a.hdr.Position) \/ AtoiFails(a.hdr.Count)
              \/ AtoiFails(a.hdr.Total)
    THEN ListError(Err("Atoi", "strconv.Atoi", "", 0))
    ELSE Listed(a.items, a.hdr.Position.v, a.hdr.Count.v, a.hdr.Total.v, NoErr)

\* strconv.Itoa
Itoa(n) == ToString(n)

\* the headers List gives to request: Position and Count, and Filter when
\* a filter name is given
ListHeaders(position, count, filterName) ==
    [h \in {"Position", "Count"}
             \cup (IF filterName # "" THEN {"Filter"} ELSE {}) |->
        CASE h = "Position" -> Itoa(position)
          [] h = "Count" -> Itoa(count)
          [] OTHER -> filterName]

\* the calls of List are counted up to MaxFetches, more than a server that
\* gives its items needs
MaxFetches == MaxItems + 2
Counted(n) == IF n < MaxFetches THEN n + 1 ELSE n

\* the chunk size the producers use
ChunkSize(chunkSize) == IF chunkSize < 1 THEN DefaultChunk ELSE chunkSize

\* RangeDone leaving the loop while one item is left
RangeDoneEarly(items) == Len(items) <= 1

\* `for _, v := range items` (and `range ids`) is over: no item is left
RangeDone(items) == items = <<>>

\* Advanced moving one item too far
AdvancedOneMore(position, count) == position + count + 1

\* position += count
Advanced(position, count) == position + count

\* Returns without the case of break: the function returns, and closes the
\* channel, only when the loop ends by its condition
ReturnsAfterLoopOnly(where, position, total) ==
    where = "loop" /\ ~(position < total)

\* the goroutine of the producer returns, which runs the deferred
\* close(ch): after a break, or when position < total no longer holds
Returns(where, position, total) ==
    \/ where = "break"
    \/ where = "loop" /\ ~(position < total)

(***************************************************************************)
(* The inputs of the URI operations.                                       *)
(***************************************************************************)
\* names given to Build as namespace segments, model and action
Names == {<<"a">>, <<"'">>, <<"a", ".">>}
\* ids given to Build; an id may be the empty string
IdNames == {<<>>, <<"a">>, <<"'">>}

\* a prefix that is not root: root with every "." replaced by "a"; no
\* prefix at all for a root that holds no "."
AltRoot(root) ==
    IF \E i \in 1..Len(root) : root[i] = "."
    THEN [i \in 1..Len(root) |-> IF root[i] = "." THEN "a" ELSE root[i]]
    ELSE <<>>

\* the paths given to Split: under the root or under another prefix, then
\* any text
PathInputs(root) ==
    {pre \o rest : pre \in {root, AltRoot(root)},
                   rest \in SeqUpTo(PathChars, MaxRest)}

\* the id lists given to Build: nil, empty, or some ids
IdsInputs == {NilIds} \cup {IdList(l) : l \in SeqUpTo(IdNames, MaxIds)}

Parts(ns, model, action, ids) ==
    [namespaceList |-> ns, model |-> model, action |-> action, ids |-> ids]

NoParts == Parts(<<>>, <<>>, <<>>, NilIds)

\* the components given to Build
PartsInputs ==
    {Parts(ns, model, action, ids) :
        ns \in SeqUpTo(Names, MaxNs),
        model \in Names \cup {<<>>},
        action \in Names \cup {<<>>},
        ids \in IdsInputs}

FromPath(p) == [kind |-> "path", path |-> p, parts |-> NoParts]
FromParts(c) == [kind |-> "parts", path |-> <<>>, parts |-> c]

\* longest list of paths given to ExtractIds
MaxList == 2

\* what follows the prefix in the paths given to ExtractIds and UpdateIDs:
\* no id clause, one id, two ids, one empty id, two empty ids, an id and an
\* empty id, a namespace alone, an id clause and an action without a model,
\* a character of no class
ListTails ==
    {<<"a">>,
     <<"a", ":", "a", ":">>,
     <<"a", ":", "a", ":", "'", ":">>,
     <<"a", ":", ":">>,
     <<"a", ":", ":", ":">>,
     <<"a", ":", "a", ":", ":">>,
     <<"a", "/">>,
     <<":", "a", ":", "(", "a", ")">>,
     <<"a", "(", "a", ")">>,
     <<"#">>}

\* the paths given to ExtractIds and UpdateIDs: under the root or under
\* another prefix
ListPaths(root) ==
    {pre \o t : pre \in {root, AltRoot(root)}, t \in ListTails}

\* the lists of paths given to ExtractIds
ListInputs(root) == SeqUpTo(ListPaths(root), MaxList)

FromList(l) == [kind |-> "list", path |-> <<>>, parts |-> NoParts, list |-> l]
FromUpdate(p, ids) ==
    [kind |-> "update", path |-> p, parts |-> Parts(<<>>, <<>>, <<>>, ids)]

\* split before any call of Split
NotCalled == SplitError("not called")
\* extracted before any call of ExtractIds, updated before any of UpdateIDs
NotExtracted == Extracted(NilIds, "not called")
NotUpdated == Updated(<<>>, "not called")

Last(h) == h[Len(h)]

(***************************************************************************)
(* The inputs of the constructors.                                         *)
(***************************************************************************)
\* longest rootPath given to NewURI and NewCInP
MaxRoot == 3

\* the characters of the root paths given
RootChars == {"/", "a", "(", ")"}

\* the root paths given to NewURI and NewCInP
RootInputs == SeqUpTo(RootChars, MaxRoot)

\* the hosts given to NewCInP: "http://h", "https://h", the two with a
\* final "/", "http://", "htt://h", "http//h", "h" and ""
HostInputs ==
    {HttpPrefix \o <<"h">>,
     HttpsPrefix \o <<"h">>,
     HttpPrefix \o <<"h", "/">>,
     HttpsPrefix \o <<"h", "/">>,
     HttpPrefix,
     <<"h", "t", "t", ":", "/", "/", "h">>,
     <<"h", "t", "t", "p", "/", "/", "h">>,
     <<"h">>,
     <<>>}

\* nothing constructed yet
NotMade == [op |-> "none", nil |-> TRUE, host |-> <<>>, rootPath |-> <<>>,
            err |-> ErrNone]

(***************************************************************************)
(* The inputs of the client's operations.                                  *)
(***************************************************************************)
\* most extra headers given to one call of request
MaxExtra == 1

\* the extra headers of a call
ExtraInputs ==
    UNION {[names -> HeaderValues] :
              names \in {d \in SUBSET HeaderNames : Cardinality(d) <= MaxExtra}}

\* the uris of the calls
ClientURIs == {<<"/", "a", ":", "a", ":">>, <<"/", "a", ":", "a", ":", "'", ":">>}

\* the verb and uri given to request: the verb is any string
RequestTargets ==
    {[verb |-> "BOB", uri |-> <<"/", "a", ":", "a", ":", "(", "a", ")">>]}

\* the response headers of the server, among those request reads
ResponseHeaderInputs ==
    {NoHeaders, "Multi-Object" :> "True", "Multi-Object" :> "False"}

\* the answers of the transport: an error of client.Do (time out, refused
\* connection, cancelled context) or a response
TransportFailure ==
    [transport |-> TRUE, status |-> 0, body |-> NoOut, hdr |-> NoHeaders]
Response(status, body, hdr) ==
    [transport |-> FALSE, status |-> status, body |-> body, hdr |-> hdr]
Responses ==
    {TransportFailure}
    \cup {Response(s, b, h) : s \in Statuses, b \in Bodies,
                              h \in ResponseHeaderInputs}

\* the values of the Object-Id header of the answers to CREATE: a path with
\* one id, without id clause, with two ids, with one empty id, with two
\* empty ids, a namespace, a path outside the grammar
ObjectIds ==
    {<<"/", "a", ":", "a", ":">>,
     <<"/", "a">>,
     <<"/", "a", ":", "a", ":", "'", ":">>,
     <<"/", "a", ":", ":">>,
     <<"/", "a", ":", ":", ":">>,
     <<"/", "a", "/">>,
     <<"/", "#">>}

\* the answers of the transport to CREATE: with or without Object-Id
CreateResponses ==
    {TransportFailure}
    \cup {Response(s, b, h) :
             s \in Statuses, b \in Bodies,
             h \in {NoHeaders} \cup {"Object-Id" :> p : p \in ObjectIds}}

\* the positions, counts and filter names given to List
ListPositions == {0 - 1, 0, 1}
ListCounts == {0 - 1, 0, 2}
FilterNames == {"", "f"}

\* a response header that holds a text that is no number
TextHeader == [text |-> "x", v |-> 0]

\* the headers of the answers to LIST made by the caller: the server may
\* adjust position and count, and each header may be missing or no number
ReplyHeaders ==
    [Position : {NumberHeader(3), MissingHeader, TextHeader},
     Count : {NumberHeader(1), MissingHeader},
     Total : {NumberHeader(7), TextHeader}]

\* the answers of the transport to a LIST made by the caller
ListReplies ==
    LET full == [Position |-> NumberHeader(3), Count |-> NumberHeader(1),
                 Total |-> NumberHeader(7)]
    IN  {ListAnswer(TRUE, 0, "eof", <<>>, full),
         ListAnswer(FALSE, 200, "syntax", <<>>, full)}
        \cup {ListAnswer(FALSE, st, "array", Items(1), h) :
                 st \in {200, 201, 202}, h \in ReplyHeaders}
        \cup {ListAnswer(FALSE, st, "eof", <<>>, full) :
                 st \in {204, 400, 401, 403, 404, 500, 503}}

\* an answer to LIST as the response request reads
AnswerResponse(a) ==
    IF a.transport THEN TransportFailure
    ELSE Response(a.status, PlainBody(a.json),
                  [h \in {n \in {"Position", "Count", "Total"} :
                             a.hdr[n] # MissingHeader} |-> a.hdr[h]])

\* the arguments of a call of List
ListArgs(position, count, filterName) ==
    [position |-> position, count |-> count, filterName |-> filterName]

\* the answers of the transport to the GET of one listed object: its
\* error, the object, the object with Multi-Object: True, a body that is no
\* JSON, and the statuses of an error
ItemResponses ==
    {TransportFailure,
     Response(200, ObjectBody(Absent, Absent), NoHeaders),
     Response(200, ObjectBody(Absent, Absent), "Multi-Object" :> "True"),
     Response(200, PlainBody("syntax"), NoHeaders),
     Response(404, PlainBody("eof"), NoHeaders),
     Response(500, ObjectBody(Str("m1"), Absent), NoHeaders)}

\* the results cinp.Get may give for u: any the transport's answers lead
\* to, only those of its error once the context is cancelled
GetOutcomes(u, ctxDone) ==
    {GetResult(u, Request("GET", u, "nil", "map", NoHeaders, NoHeaders, r)) :
        r \in IF ctxDone THEN {TransportFailure} ELSE ItemResponses}

\* a call and its arguments
Call(op, verb, u, dataIn, dataOut, extra) ==
    [op |-> op, verb |-> verb, uri |-> u,
     dataIn |-> dataIn, dataOut |-> dataOut, extra |-> extra]
NoCall == Call("none", "", <<>>, "nil", "nil", NoHeaders)

NoList == Listed(<<>>, 0, 0, 0, NoErr)

NoRet == [req |-> Returned(0, NoHeaders, NoErr, NoOut, NoWire, FALSE),
          obj |-> NilObject, err |-> NoErr, list |-> NoList]

(***************************************************************************)
(* The state.                                                              *)
(***************************************************************************)
VARIABLES
    rootPath,   \* URI.rootPath
    origin,     \* the input the URI operations started from
    uri,        \* the path at hand: the input of Split, the output of Build
    parts,      \* the components at hand: the input of Build
    split,      \* what the last Split returned
    extracted,  \* what the last ExtractIds returned
    updated,    \* what the last UpdateIDs returned
    hist,       \* the URI operations applied so far, in order
    headers,    \* CInP.headers, the client's default headers
    call,       \* the last call made on the client and its arguments
    wire,       \* the HTTP request the last call sent, if it sent one
    resp,       \* the response the server gave to it
    ret,        \* what the last call returned
    sends,      \* the HTTP requests the last call made (calls of client.Do)
    object,     \* the caller's object given to Create or Update, as it is
    kind,       \* the producer running: of ListIds ("ids") or ListObjects
    held,       \* the items the server holds
    chunkSize,  \* the chunk size given
    pc,         \* where the producer is
    position,   \* position, count and total of the producer
    count,
    total,
    queue,      \* items, itemList or ids: what the inner loop has left
    received,   \* what the consumer received from ch, in order
    fetches,    \* the calls of List made
    gets,       \* the calls of Get made
    listFailed, \* a call of List returned an error
    cancelled,  \* ctx is cancelled
    abandoned,  \* the consumer has stopped receiving from ch
    getFailed,  \* a call of Get made by the producer returned an error
    misreported, \* the server answered a LIST with a count that is not the
                \* number of items it had to give
    typeRegistry, \* CInP.typeRegistry: the uris that have a type
    caller,     \* what the goroutine that called ListObjects is doing
    given,      \* the host and rootPath given to a constructor
    made        \* what the constructor called returned

uriVars == <<rootPath, origin, uri, parts, split, extracted, updated, hist>>
clientVars == <<headers, call, wire, resp, ret, sends, object>>
histVars == <<getFailed, misreported>>
listVars == <<kind, held, chunkSize, pc, position, count, total, queue,
              received, fetches, gets, listFailed, cancelled, abandoned,
              histVars>>
ctorVars == <<given, made>>
sharedVars == <<typeRegistry, caller>>
vars == <<uriVars, clientVars, listVars, ctorVars, sharedVars>>

\* the client as NewCInP leaves it, before any call
ClientIdle ==
    /\ headers = NoHeaders
    /\ call = NoCall
    /\ wire = NoWire
    /\ resp = TransportFailure
    /\ ret = NoRet
    /\ sends = 0
    /\ object = NilObject

\* the variables of the constructors while a client made with the host
\* "http://h" does its work
CtorIdle ==
    /\ given = [host |-> HttpPrefix \o <<"h">>, rootPath |-> <<"/">>]
    /\ made = NotMade

\* no type is registered and the caller is in no call
SharedIdle ==
    /\ typeRegistry = {}
    /\ caller = "idle"

\* the variables of listing while no producer runs
ListIdle ==
    /\ kind = "ids" /\ held = <<>> /\ chunkSize = 0
    /\ pc = "closed" /\ position = 0 /\ count = 0 /\ total = 0
    /\ queue = <<>> /\ received = <<>> /\ fetches = 0 /\ gets = 0
    /\ listFailed = FALSE /\ cancelled = FALSE /\ abandoned = FALSE
    /\ getFailed = FALSE /\ misreported = FALSE

\* the URI variables while the client's operations are explored
URIIdle ==
    /\ rootPath = <<"/">>
    /\ origin = FromPath(<<>>)
    /\ uri = <<>>
    /\ parts = NoParts
    /\ split = NotCalled
    /\ extracted = NotExtracted
    /\ updated = NotUpdated
    /\ hist = <<>>

(***************************************************************************)
(* The state machine of the URI operations: an input is drawn, then Split  *)
(* and Build are applied in turn, each to what the other returned.         *)
(***************************************************************************)
InitURI ==
    /\ rootPath \in RootPaths
    /\ origin \in {FromPath(p) : p \in PathInputs(rootPath)}
                    \cup {FromParts(c) : c \in PartsInputs}
                    \cup {FromList(l) : l \in ListInputs(rootPath)}
                    \cup {FromUpdate(p, ids) : p \in ListPaths(rootPath),
                                               ids \in IdsInputs}
    /\ uri = origin.path
    /\ parts = origin.parts
    /\ split = NotCalled
    /\ extracted = NotExtracted
    /\ updated = NotUpdated
    /\ hist = <<>>
    /\ ClientIdle
    /\ ListIdle
    /\ CtorIdle
    /\ SharedIdle

\* u.Split(uri)
SplitAct ==
    /\ Len(hist) < MaxOps
    /\ \/ hist = <<>> /\ origin.kind = "path"
       \/ hist # <<>> /\ Last(hist) = "Build"
       \/ hist # <<>> /\ Last(hist) = "UpdateIDs" /\ updated.err = ErrNone
    /\ split' = Split(rootPath, uri)
    /\ parts' = IF split'.err = ErrNone
                THEN Parts(split'.namespaceList, split'.model,
                           split'.action, split'.ids)
                ELSE parts
    /\ hist' = Append(hist, "Split")
    /\ UNCHANGED <<rootPath, origin, uri, extracted, updated, clientVars, listVars,
                   ctorVars, sharedVars>>

\* u.Build(namespace, model, action, ids)
BuildAct ==
    /\ Len(hist) < MaxOps
    /\ \/ hist = <<>> /\ origin.kind = "parts"
       \/ hist # <<>> /\ Last(hist) = "Split" /\ split.err = ErrNone
    /\ uri' = Build(rootPath, parts.namespaceList, parts.model,
                    parts.action, parts.ids)
    /\ hist' = Append(hist, "Build")
    /\ UNCHANGED <<rootPath, origin, parts, split, extracted, updated,
                   clientVars, listVars, ctorVars, sharedVars>>

\* u.ExtractIds(uriList)
ExtractIdsAct ==
    /\ hist = <<>> /\ origin.kind = "list"
    /\ extracted' = ExtractIds(rootPath, origin.list)
    /\ hist' = Append(hist, "ExtractIds")
    /\ UNCHANGED <<rootPath, origin, uri, parts, split, updated, clientVars, listVars,
                   ctorVars, sharedVars>>

\* u.UpdateIDs(uri, ids)
UpdateIDsAct ==
    /\ hist = <<>> /\ origin.kind = "update"
    /\ updated' = UpdateIDs(rootPath, uri, parts.ids)
    /\ uri' = updated'.path
    /\ hist' = Append(hist, "UpdateIDs")
    /\ UNCHANGED <<rootPath, origin, parts, split, extracted, clientVars, listVars,
                   ctorVars, sharedVars>>

NextURI == SplitAct \/ BuildAct \/ ExtractIdsAct \/ UpdateIDsAct

SpecURI == InitURI /\ [][NextURI]_vars

(***************************************************************************)
(* The state machine of the constructors: a host and a rootPath are drawn, *)
(* then NewURI or NewCInP is called with them.                             *)
(***************************************************************************)
InitNew ==
    /\ URIIdle /\ ClientIdle /\ ListIdle /\ SharedIdle
    /\ given \in [host : HostInputs, rootPath : RootInputs]
    /\ made = NotMade

\* NewURI(rootPath)
NewURIAct ==
    /\ made = NotMade
    /\ LET u == NewURI(given.rootPath)
       IN  made' = [op |-> "NewURI", nil |-> u.nil, host |-> <<>>,
                    rootPath |-> u.rootPath, err |-> u.err]
    /\ UNCHANGED <<given, uriVars, clientVars, listVars, sharedVars>>

\* NewCInP(log, host, rootPath, proxy)
NewCInPAct ==
    /\ made = NotMade
    /\ LET c == NewCInP(given.host, given.rootPath)
       IN  made' = [op |-> "NewCInP", nil |-> c.nil, host |-> c.host,
                    rootPath |-> c.rootPath, err |-> c.err]
    /\ UNCHANGED <<given, uriVars, clientVars, listVars, sharedVars>>

NextNew == NewURIAct \/ NewCInPAct

SpecNew == InitNew /\ [][NextNew]_vars

(***************************************************************************)
(* The state machine of the client.  The caller makes one call at a time:  *)
(* SetHeader and ClearHeader act on the client at once; request and Get    *)
(* send a request, take the answer the transport gives and return, and the *)
(* caller takes what they returned before it makes its next call.          *)
(***************************************************************************)
InitClient ==
    URIIdle /\ ClientIdle /\ ListIdle /\ CtorIdle /\ SharedIdle

\* cinp.SetHeader(name, value)
SetHeaderAct ==
    /\ call = NoCall
    /\ \E name \in HeaderNames, value \in HeaderValues :
          headers' = [k \in DOMAIN headers \cup {name} |->
                         IF k = name THEN value ELSE headers[k]]
    /\ UNCHANGED <<call, wire, resp, ret, sends, object, uriVars, listVars, ctorVars, sharedVars>>

\* cinp.ClearHeader(name)
ClearHeaderAct ==
    /\ call = NoCall
    /\ \E name \in HeaderNames :
          headers' = [k \in DOMAIN headers \ {name} |-> headers[k]]
    /\ UNCHANGED <<call, wire, resp, ret, sends, object, uriVars, listVars, ctorVars, sharedVars>>

\* cinp.request(ctx, verb, uri, dataIn, dataOut, headers)
RequestAct ==
    /\ call = NoCall
    /\ \E t \in RequestTargets, dataIn \in {"nil", "value", "unmarshalable"},
          dataOut \in {"nil", "map"}, extra \in ExtraInputs, r \in Responses :
       \E fromClient \in RangeSet(headers), fromCall \in RangeSet(extra) :
          LET q == Request(t.verb, t.uri, dataIn, dataOut, fromClient, fromCall, r)
          IN  /\ call' = Call("request", t.verb, t.uri, dataIn, dataOut, extra)
              /\ wire' = q.sent
              /\ sends' = Sends(q)
              /\ resp' = IF q.sent.sent THEN r ELSE TransportFailure
              /\ ret' = [req |-> q, obj |-> NilObject, err |-> q.err,
                          list |-> NoList]
    /\ UNCHANGED <<headers, object, uriVars, listVars, ctorVars, sharedVars>>

\* cinp.Get(ctx, uri)
GetAct ==
    /\ call = NoCall
    /\ \E u \in ClientURIs, r \in Responses :
       \E fromClient \in RangeSet(headers) :
          LET q == Request("GET", u, "nil", "map", fromClient, NoHeaders, r)
              g == GetResult(u, q)
          IN  /\ call' = Call("Get", "GET", u, "nil", "map", NoHeaders)
              /\ wire' = q.sent
              /\ sends' = Sends(q)
              /\ resp' = r
              /\ ret' = [req |-> q, obj |-> g.obj, err |-> g.err,
                          list |-> NoList]
    /\ UNCHANGED <<headers, object, uriVars, listVars, ctorVars, sharedVars>>

\* cinp.Create(ctx, uri, object)
CreateAct ==
    /\ call = NoCall
    /\ \E u \in ClientURIs, r \in CreateResponses :
       \E fromClient \in RangeSet(headers) :
          LET q == Request("CREATE", u, "value", "object", fromClient,
                           NoHeaders, r)
              g == CreateResult(rootPath, q)
          IN  /\ call' = Call("Create", "CREATE", u, "value", "object", NoHeaders)
              /\ wire' = q.sent
              /\ sends' = Sends(q)
              /\ resp' = r
              /\ ret' = [req |-> q, obj |-> g.obj, err |-> g.err,
                          list |-> NoList]
              /\ object' = ObjectAfterCreate(Object(<<>>, CallerData), q, g)
    /\ UNCHANGED <<headers, uriVars, listVars, ctorVars, sharedVars>>

\* cinp.Update(ctx, object), the URI of object being u
UpdateAct ==
    /\ call = NoCall
    /\ \E u \in ClientURIs, r \in Responses :
       \E fromClient \in RangeSet(headers) :
          LET q == Request("UPDATE", u, "value", "object", fromClient,
                           NoHeaders, r)
              g == UpdateResult(u, q)
          IN  /\ call' = Call("Update", "UPDATE", u, "value", "object", NoHeaders)
              /\ wire' = q.sent
              /\ sends' = Sends(q)
              /\ resp' = r
              /\ ret' = [req |-> q, obj |-> g.obj, err |-> g.err,
                          list |-> NoList]
              /\ object' = ObjectAfterUpdate(Object(u, CallerData), q)
    /\ UNCHANGED <<headers, uriVars, listVars, ctorVars, sharedVars>>

\* cinp.UpdateMulti(ctx, uri, values, result)
UpdateMultiAct ==
    /\ call = NoCall
    /\ \E u \in ClientURIs, r \in Responses :
       \E fromClient \in RangeSet(headers) :
          LET q == Request("UPDATE", u, "value", "map", fromClient,
                           MultiHeaders, r)
              g == MultiResult(q)
          IN  /\ call' = Call("UpdateMulti", "UPDATE", u, "value", "map",
                              MultiHeaders)
              /\ wire' = q.sent
              /\ sends' = Sends(q)
              /\ resp' = r
              /\ ret' = [req |-> q, obj |-> g.obj, err |-> g.err,
                          list |-> NoList]
    /\ UNCHANGED <<headers, object, uriVars, listVars, ctorVars, sharedVars>>

\* cinp.Call(ctx, uri, args, result)
CallAct ==
    /\ call = NoCall
    /\ \E t \in RequestTargets, r \in Responses :
       \E fromClient \in RangeSet(headers) :
          LET q == Request("CALL", t.uri, "value", "map", fromClient,
                           NoHeaders, r)
              g == CallResult(q)
          IN  /\ call' = Call("Call", "CALL", t.uri, "value", "map", NoHeaders)
              /\ wire' = q.sent
              /\ sends' = Sends(q)
              /\ resp' = r
              /\ ret' = [req |-> q, obj |-> g.obj, err |-> g.err,
                          list |-> NoList]
    /\ UNCHANGED <<headers, object, uriVars, listVars, ctorVars, sharedVars>>

\* cinp.CallMulti(ctx, uri, args)
CallMultiAct ==
    /\ call = NoCall
    /\ \E t \in RequestTargets, r \in Responses :
       \E fromClient \in RangeSet(headers) :
          LET q == Request("CALL", t.uri, "value", "map", fromClient,
                           MultiHeaders, r)
              g == MultiResult(q)
          IN  /\ call' = Call("CallMulti", "CALL", t.uri, "value", "map",
                              MultiHeaders)
              /\ wire' = q.sent
              /\ sends' = Sends(q)
              /\ resp' = r
              /\ ret' = [req |-> q, obj |-> g.obj, err |-> g.err,
                          list |-> NoList]
    /\ UNCHANGED <<headers, object, uriVars, listVars, ctorVars, sharedVars>>

\* cinp.Describe(ctx, uri)
DescribeAct ==
    /\ call = NoCall
    /\ \E r \in Responses :
       \E fromClient \in RangeSet(headers) :
          LET q == Request("DESCRIBE", ListURI, "nil", "object", fromClient,
                           NoHeaders, r)
              g == DescribeResult(q)
          IN  /\ call' = Call("Describe", "DESCRIBE", ListURI, "nil", "object",
                              NoHeaders)
              /\ wire' = q.sent
              /\ sends' = Sends(q)
              /\ resp' = r
              /\ ret' = [req |-> q, obj |-> g.obj, err |-> g.err,
                          list |-> NoList]
    /\ UNCHANGED <<headers, object, uriVars, listVars, ctorVars, sharedVars>>

\* cinp.List(ctx, uri, filterName, filterValues, position, count)
ListAct ==
    /\ call = NoCall
    /\ \E givenPosition \in ListPositions, givenCount \in ListCounts,
          filterName \in FilterNames, a \in ListReplies :
       \E fromClient \in RangeSet(headers) :
          LET extra == ListHeaders(givenPosition, givenCount, filterName)
              q == Request("LIST", ListURI, "value", "list", fromClient,
                           extra, AnswerResponse(a))
              l == List(givenPosition, givenCount, a)
          IN  IF ListRefuses(givenPosition, givenCount)
              THEN /\ call' = Call("List", "LIST", ListURI, "value", "list",
                                   NoHeaders)
                                 @@ ListArgs(givenPosition, givenCount, filterName)
                   /\ wire' = NoWire
                   /\ sends' = 0
                   /\ resp' = TransportFailure
                   /\ ret' = [NoRet EXCEPT !.err = l.err, !.list = l]
              ELSE /\ call' = Call("List", "LIST", ListURI, "value", "list",
                                   extra)
                                 @@ ListArgs(givenPosition, givenCount, filterName)
                   /\ wire' = q.sent
                   /\ sends' = Sends(q)
                   /\ resp' = AnswerResponse(a)
                   /\ ret' = [req |-> q, obj |-> NilObject, err |-> l.err,
                               list |-> l]
    /\ UNCHANGED <<headers, object, uriVars, listVars, ctorVars, sharedVars>>

\* cinp.Delete(ctx, object), the URI of object being u
DeleteAct ==
    /\ call = NoCall
    /\ \E u \in ClientURIs, r \in Responses :
       \E fromClient \in RangeSet(headers) :
          LET q == Request("DELETE", u, "nil", "nil", fromClient, NoHeaders, r)
              g == DeleteResult(q)
          IN  /\ call' = Call("Delete", "DELETE", u, "nil", "nil", NoHeaders)
              /\ wire' = q.sent
              /\ sends' = Sends(q)
              /\ resp' = r
              /\ ret' = [req |-> q, obj |-> g.obj, err |-> g.err,
                          list |-> NoList]
    /\ UNCHANGED <<headers, object, uriVars, listVars, ctorVars, sharedVars>>

\* cinp.DeleteURI(ctx, uri)
DeleteURIAct ==
    /\ call = NoCall
    /\ \E r \in Responses :
       \E fromClient \in RangeSet(headers) :
          LET q == Request("DELETE", ListURI, "nil", "nil", fromClient,
                           NoHeaders, r)
              g == DeleteResult(q)
          IN  /\ call' = Call("DeleteURI", "DELETE", ListURI, "nil", "nil",
                              NoHeaders)
              /\ wire' = q.sent
              /\ sends' = Sends(q)
              /\ resp' = r
              /\ ret' = [req |-> q, obj |-> g.obj, err |-> g.err,
                          list |-> NoList]
    /\ UNCHANGED <<headers, object, uriVars, listVars, ctorVars, sharedVars>>

\* the caller takes what the call returned
ReturnAct ==
    /\ call # NoCall
    /\ call' = NoCall
    /\ wire' = NoWire
    /\ resp' = TransportFailure
    /\ ret' = NoRet
    /\ sends' = 0
    /\ object' = NilObject
    /\ UNCHANGED <<headers, uriVars, listVars, ctorVars, sharedVars>>

NextClient ==
    \/ SetHeaderAct \/ ClearHeaderAct \/ RequestAct \/ GetAct
    \/ CreateAct \/ UpdateAct \/ UpdateMultiAct \/ CallAct \/ CallMultiAct
    \/ DescribeAct \/ ListAct \/ DeleteAct \/ DeleteURIAct
    \/ ReturnAct

SpecClient == InitClient /\ [][NextClient]_vars

(***************************************************************************)
(* The state machine of listing.  ListIds or ListObjects was called and    *)
(* returned ch; its goroutine, the producer, runs the loop: it calls List, *)
(* and sends what List returned, item after item, on ch, which has no      *)
(* buffer: a send completes when the consumer receives.  The consumer may  *)
(* stop receiving and the context may be cancelled at any time.            *)
(***************************************************************************)
InitList ==
    /\ URIIdle /\ ClientIdle /\ CtorIdle /\ SharedIdle
    /\ kind \in {"ids", "objects"}
    /\ held \in ServerInputs
    /\ chunkSize \in 0..MaxChunk
    /\ pc = "loop" /\ position = 0 /\ total = 1 /\ count = 0
    /\ queue = <<>> /\ received = <<>> /\ fetches = 0 /\ gets = 0
    /\ listFailed = FALSE /\ cancelled = FALSE /\ abandoned = FALSE
    /\ getFailed = FALSE /\ misreported = FALSE

\* items, position, count, total, err = cinp.List(...), then the test of err
FetchAct ==
    /\ pc = "loop" /\ position < total
    /\ \E a \in ListAnswers(held, position, ChunkSize(chunkSize), cancelled) :
          LET l == List(position, ChunkSize(chunkSize), a)
          IN  /\ queue' = l.items
              /\ position' = l.position
              /\ count' = l.count
              /\ total' = l.total
              /\ listFailed' = (listFailed \/ l.err # NoErr)
              /\ misreported' =
                    (misreported
                       \/ Misreports(a, held, position, ChunkSize(chunkSize)))
              /\ pc' = IF l.err # NoErr THEN "break"
                        ELSE IF kind = "ids" THEN "range" ELSE "extract"
    /\ fetches' = Counted(fetches)
    /\ UNCHANGED <<kind, held, chunkSize, received, gets, cancelled, abandoned,
                   getFailed, uriVars, clientVars, ctorVars, sharedVars>>

\* ids, err := cinp.ExtractIds(itemList), then the test of err (ListObjects)
ExtractAct ==
    /\ kind = "objects" /\ pc = "extract"
    /\ pc' = IF ExtractedPage[queue].err # ErrNone THEN "break" ELSE "range"
    /\ queue' = ExtractedPage[queue].ids.list
    /\ UNCHANGED <<kind, held, chunkSize, position, count, total, received,
                   fetches, gets, listFailed, cancelled, abandoned,
                   uriVars, clientVars, ctorVars, histVars, sharedVars>>

\* object, err := cinp.Get(ctx, uri+":"+id+":"), then the test of err, whose
\* break leaves the loop over the ids only (ListObjects)
GetItemAct ==
    /\ kind = "objects" /\ pc = "range" /\ queue # <<>>
    /\ \E g \in GetOutcomes(ListURI \o <<":">> \o Head(queue) \o <<":">>,
                             cancelled) :
          /\ IF g.err = NoErr
             THEN pc' = "send" /\ queue' = queue
             ELSE pc' = "range" /\ queue' = <<>>
          /\ getFailed' = (getFailed \/ g.err # NoErr)
    /\ gets' = gets + 1
    /\ UNCHANGED <<kind, held, chunkSize, position, count, total, received,
                   fetches, listFailed, cancelled, abandoned, misreported,
                   uriVars, clientVars, ctorVars, sharedVars>>

\* ch <- v (ListIds) and ch <- object (ListObjects), the consumer receiving
SendAct ==
    /\ ~abandoned
    /\ queue # <<>>
    /\ \/ kind = "ids" /\ pc = "range"
       \/ kind = "objects" /\ pc = "send"
    /\ received' = Append(received,
                          IF kind = "ids" THEN Head(queue)
                          ELSE ListURI \o <<":">> \o Head(queue) \o <<":">>)
    /\ queue' = Tail(queue)
    /\ pc' = "range"
    /\ UNCHANGED <<kind, held, chunkSize, position, count, total, fetches, gets,
                   listFailed, cancelled, abandoned, uriVars, clientVars,
                   ctorVars, histVars, sharedVars>>

\* position += count, after the loop over the items
AdvanceAct ==
    /\ pc = "range" /\ RangeDone(queue)
    /\ position' = Advanced(position, count)
    /\ pc' = "loop"
    /\ UNCHANGED <<kind, held, chunkSize, count, total, queue, received,
                   fetches, gets, listFailed, cancelled, abandoned,
                   uriVars, clientVars, ctorVars, histVars, sharedVars>>

\* the producer returns and the deferred close(ch) runs
CloseAct ==
    /\ Returns(pc, position, total)
    /\ pc' = "closed"
    /\ UNCHANGED <<kind, held, chunkSize, position, count, total, queue,
                   received, fetches, gets, listFailed, cancelled, abandoned,
                   uriVars, clientVars, ctorVars, histVars, sharedVars>>

\* the context given to ListIds or ListObjects is cancelled
CancelAct ==
    /\ pc # "closed" /\ ~cancelled
    /\ cancelled' = TRUE
    /\ UNCHANGED <<kind, held, chunkSize, pc, position, count, total, queue,
                   received, fetches, gets, listFailed, abandoned,
                   uriVars, clientVars, ctorVars, histVars, sharedVars>>

\* the consumer stops receiving from ch
AbandonAct ==
    /\ pc # "closed" /\ ~abandoned
    /\ abandoned' = TRUE
    /\ UNCHANGED <<kind, held, chunkSize, pc, position, count, total, queue,
                   received, fetches, gets, listFailed, cancelled,
                   uriVars, clientVars, ctorVars, histVars, sharedVars>>

\* the steps of the producer
Producer ==
    FetchAct \/ ExtractAct \/ GetItemAct \/ SendAct \/ AdvanceAct \/ CloseAct

NextList == Producer \/ CancelAct \/ AbandonAct

\* the goroutine of the producer is scheduled as long as it can run, and a
\* consumer that has not stopped receives what is sent
SpecList ==
    /\ InitList /\ [][NextList]_vars
    /\ WF_vars(Producer)

(***************************************************************************)
(* The producer and its caller.  ListIds and ListObjects return ch at once *)
(* and their caller goes on: besides receiving from ch it may call         *)
(* RegisterType and Get on the same client while the producer runs.  A     *)
(* call of the caller takes two steps, its start and the access to the     *)
(* client's field after which it returns; nothing orders these steps with  *)
(* those of the producer but the sends on ch.                              *)
(***************************************************************************)
\* the caller starts cinp.RegisterType(uri, objectType), for the uri listed
RegisterTypeAct ==
    /\ pc # "closed" /\ caller = "idle"
    /\ caller' = "RegisterType"
    /\ UNCHANGED <<typeRegistry, uriVars, clientVars, listVars, ctorVars>>

\* cinp.typeRegistry[uri] = objectType, and RegisterType returns
RegisterTypeWriteAct ==
    /\ caller = "RegisterType"
    /\ typeRegistry' = typeRegistry \cup {ListURI}
    /\ caller' = "idle"
    /\ UNCHANGED <<uriVars, clientVars, listVars, ctorVars>>

\* the caller starts cinp.Get(ctx, uri)
CallerGetAct ==
    /\ pc # "closed" /\ caller = "idle"
    /\ caller' = "Get"
    /\ UNCHANGED <<typeRegistry, uriVars, clientVars, listVars, ctorVars>>

\* Get reads cinp.typeRegistry in newObject, sends its request and returns
CallerGetReadAct ==
    /\ caller = "Get"
    /\ caller' = "idle"
    /\ UNCHANGED <<typeRegistry, uriVars, clientVars, listVars, ctorVars>>

\* the producer's Get reads cinp.typeRegistry while RegisterType writes it:
\* a data race on a map, which the Go runtime may end with the fatal error
\* "concurrent map read and map write" (it may also go unnoticed, which is
\* GetItemAct)
GetItemFatalAct ==
    /\ kind = "objects" /\ pc = "range" /\ queue # <<>>
    /\ caller = "RegisterType"
    /\ pc' = "fatal"
    /\ UNCHANGED <<kind, held, chunkSize, position, count, total, queue,
                   received, fetches, gets, listFailed, cancelled, abandoned,
                   histVars, uriVars, clientVars, ctorVars, sharedVars>>

NextShared ==
    \/ NextList
    \/ RegisterTypeAct \/ RegisterTypeWriteAct
    \/ CallerGetAct \/ CallerGetReadAct
    \/ GetItemFatalAct

SpecShared == InitList /\ [][NextShared]_vars

(***************************************************************************)
(* The path grammar as the specification states it:                        *)
(*   path := rootPath, {segment, "/"}, [model], [":", {id, ":"}],          *)
(*           ["(", action, ")"]                                            *)
(* with segment, model, id and action over one set of characters, an id    *)
(* possibly empty.  It is stated by the shape of the four parts of the     *)
(* path, not by a scan, and is used only to state the claims.              *)
(***************************************************************************)
\* the character set of the grammar: alphanumeric plus -_.!~*'
GrammarChars == {"a", ".", "'"}

AllIn(s, chars) == \A i \in 1..Len(s) : s[i] \in chars

\* {segment, "/"} : empty, or segments each non-empty and each followed by "/"
IsNamespaceText(s) ==
    \/ s = <<>>
    \/ /\ AllIn(s, GrammarChars \cup {"/"})
       /\ s[1] # "/"
       /\ s[Len(s)] = "/"
       /\ \A i \in 1..(Len(s) - 1) : ~(s[i] = "/" /\ s[i + 1] = "/")

\* [model]
IsModelText(s) == AllIn(s, GrammarChars)

\* [":", {id, ":"}]
IsIdClauseText(s) ==
    \/ s = <<>>
    \/ /\ AllIn(s, GrammarChars \cup {":"})
       /\ s[1] = ":"
       /\ s[Len(s)] = ":"

\* ["(", action, ")"]
IsActionText(s) ==
    \/ s = <<>>
    \/ /\ Len(s) >= 3
       /\ s[1] = "("
       /\ s[Len(s)] = ")"
       /\ AllIn(SubSeq(s, 2, Len(s) - 1), GrammarChars)

InGrammar(root, p) ==
    /\ HasPrefix(p, root)
    /\ \E i \in Len(root)..Len(p) :
       \E j \in i..Len(p) :
       \E k \in j..Len(p) :
          /\ IsNamespaceText(SubSeq(p, Len(root) + 1, i))
          /\ IsModelText(SubSeq(p, i + 1, j))
          /\ IsIdClauseText(SubSeq(p, j + 1, k))
          /\ IsActionText(SubSeq(p, k + 1, Len(p)))

\* the id-list clause of a path of the grammar: the text from its first to
\* its last ":" (the empty text if it has no ":")
IdClauseOf(p) ==
    IF \E i \in 1..Len(p) : p[i] = ":"
    THEN LET first == CHOOSE i \in 1..Len(p) :
                          p[i] = ":" /\ \A j \in 1..(i - 1) : p[j] # ":"
             last == CHOOSE i \in 1..Len(p) :
                          p[i] = ":" /\ \A j \in (i + 1)..Len(p) : p[j] # ":"
         IN  SubSeq(p, first, last)
    ELSE <<>>

\* the ids i1, ..., in of the clause ":i1:...:in:" (n >= 1), in order
RECURSIVE ClauseIds(_)
ClauseIds(clause) ==
    LET body == Tail(clause)
        n == CHOOSE i \in 1..Len(body) :
                 body[i] = ":" /\ \A j \in 1..(i - 1) : body[j] # ":"
    IN  IF n = Len(body)
        THEN <<SubSeq(body, 1, n - 1)>>
        ELSE <<SubSeq(body, 1, n - 1)>> \o ClauseIds(SubSeq(body, n, Len(body)))

\* the first operations applied were ops
Began(ops) == Len(hist) >= Len(ops) /\ SubSeq(hist, 1, Len(ops)) = ops

(***************************************************************************)
(* Claims about the URI grammar, checked under SpecURI.                    *)
(***************************************************************************)
\* the components are well formed: segments, model and action are valid in
\* the narrowest sense (they use only characters the expression of NewURI
\* accepts there), ids and action are set only with a model, and the id
\* list is nil or a non-empty list of ids, each valid or empty
WellFormedParts(c) ==
    /\ AllIn(c.model, SegClass) /\ AllIn(c.action, SegClass)
    /\ \A i \in 1..Len(c.namespaceList) :
          c.namespaceList[i] # <<>> /\ AllIn(c.namespaceList[i], SegClass)
    /\ c.model = <<>> => c.ids.nil /\ c.action = <<>>
    /\ ~c.ids.nil =>
          /\ c.ids.list # <<>>
          /\ \A i \in 1..Len(c.ids.list) : AllIn(c.ids.list[i], IdClass)

\* C1: Split after Build is the identity on well-formed components: for
\* every well-formed (ns, model, action, ids), Split(Build(ns, model, action,
\* ids)) succeeds and returns (ns, model, action, ids, multiplicity) with
\* multiplicity = (number of ids >= 2), nil ids coming back as nil and [""]
\* as [""].
C1_SplitAfterBuild ==
    (origin.kind = "parts" /\ WellFormedParts(origin.parts)
        /\ Began(<<"Build", "Split">>))
    => split = [namespaceList |-> origin.parts.namespaceList,
                model |-> origin.parts.model,
                action |-> origin.parts.action,
                ids |-> origin.parts.ids,
                multi |-> Len(origin.parts.ids.list) >= 2,
                err |-> ErrNone]

\* C2: Build after Split is the identity on accepted paths: for every path p
\* that Split accepts, Build of the components Split returned is p.
C2_BuildAfterSplit ==
    (origin.kind = "path" /\ Began(<<"Split", "Build">>))
    => uri = origin.path

\* C3: Split fails, returning no components, for every path that does not
\* begin with rootPath and for every path that holds a character outside
\* the allowed set or otherwise is not a path of the grammar.
C3_SplitRejects ==
    (origin.kind = "path" /\ Began(<<"Split">>)
        /\ \/ ~HasPrefix(origin.path, rootPath)
           \/ \E i \in 1..Len(origin.path) :
                 origin.path[i] \notin GrammarChars \cup {"/", ":", "(", ")"}
           \/ ~InGrammar(rootPath, origin.path))
    => /\ split.err # ErrNone
       /\ split = SplitError(split.err)

\* C3 witness: Split has refused a path that matches the expression under
\* another prefix than rootPath.
C3_Witness ==
    /\ Began(<<"Split">>)
    /\ ~HasPrefix(origin.path, rootPath)
    /\ FindStringSubmatch(rootPath, origin.path).matched
    /\ split.err = ErrRoot

\* C4: every result Split returns without error is well formed: an id list
\* or an action comes with a model.
C4_SplitWellFormed ==
    (hist # <<>> /\ Last(hist) = "Split" /\ split.err = ErrNone)
    => ((~split.ids.nil \/ split.action # <<>>) => split.model # <<>>)

\* C5: for every path Split accepts, ids is nil exactly when the path has no
\* id-list clause, the clause ":i1:...:in:" yields <<i1, ..., in>> in order
\* ("::" yields the single empty id), and the multiplicity flag is true
\* exactly when there are two ids or more.
C5_SplitIds ==
    (origin.kind = "path" /\ Began(<<"Split">>) /\ split.err = ErrNone)
    => LET clause == IdClauseOf(origin.path)
       IN  /\ split.ids.nil <=> clause = <<>>
           /\ Len(clause) >= 2 => split.ids = IdList(ClauseIds(clause))
           /\ split.multi <=> Len(split.ids.list) >= 2

\* the ids a path of the grammar carries, in order: those of its id-list
\* clause, none if it has no clause or a clause without an id
GrammarIds(p) ==
    IF Len(IdClauseOf(p)) >= 2 THEN ClauseIds(IdClauseOf(p)) ELSE <<>>

\* the ids the paths of a list carry, in the order of the list
RECURSIVE ConcatIds(_)
ConcatIds(list) ==
    IF list = <<>> THEN <<>>
    ELSE GrammarIds(Head(list)) \o ConcatIds(Tail(list))

\* Split accepts every path of the list
AllAccepted(list) ==
    \A i \in 1..Len(list) : Split(rootPath, list[i]).err = ErrNone

\* C15: for every list of paths that all parse, ExtractIds returns the ids
\* of the first path in their order, then those of the second, and so on;
\* a path without an id clause contributes nothing and the empty list gives
\* an empty result.
C15_ExtractConcat ==
    (origin.kind = "list" /\ hist = <<"ExtractIds">>
        /\ AllAccepted(origin.list))
    => extracted = Extracted(IdList(ConcatIds(origin.list)), ErrNone)

\* C16: ExtractIds returns an error and no ids whenever the list holds a
\* path that Split rejects, and succeeds only when Split accepts every path
\* of the list.
C16_ExtractRejects ==
    (origin.kind = "list" /\ hist = <<"ExtractIds">>)
    => /\ ~AllAccepted(origin.list)
             => extracted.err # ErrNone /\ extracted.ids = NilIds
       /\ extracted.err = ErrNone => AllAccepted(origin.list)

\* C17: for every path p that Split accepts and every id list newIds,
\* UpdateIDs(p, newIds) returns a path that Split parses to the namespace,
\* model and action of p and to the ids newIds.
C17_UpdateIDs ==
    (origin.kind = "update" /\ Began(<<"UpdateIDs">>)
        /\ Split(rootPath, origin.path).err = ErrNone)
    => /\ updated.err = ErrNone
       /\ hist = <<"UpdateIDs", "Split">> =>
             LET old == Split(rootPath, origin.path)
             IN  /\ split.err = ErrNone
                 /\ split.namespaceList = old.namespaceList
                 /\ split.model = old.model
                 /\ split.action = old.action
                 /\ split.ids.list = origin.parts.ids.list

\* rootPath followed by each segment of the namespace followed by "/"
RECURSIVE NamespacePath(_, _)
NamespacePath(prefix, namespace) ==
    IF namespace = <<>> THEN prefix
    ELSE NamespacePath(prefix \o Head(namespace) \o <<"/">>, Tail(namespace))

\* C18: for every namespace, action and ids, Build with an empty model
\* returns rootPath followed by each namespace segment followed by "/" and
\* nothing else, which is what Build(namespace, "", "", nil) returns.
C18_BuildWithoutModel ==
    (origin.kind = "parts" /\ origin.parts.model = <<>> /\ hist = <<"Build">>)
    => /\ uri = NamespacePath(rootPath, origin.parts.namespaceList)
       /\ uri = Build(rootPath, origin.parts.namespaceList, <<>>, <<>>, NilIds)

\* C18 witness: Build was given two segments, no model, an action and two
\* ids and returned the two segments under the root.
C18_Witness ==
    /\ origin.kind = "parts" /\ hist = <<"Build">>
    /\ origin.parts.model = <<>>
    /\ origin.parts.action # <<>>
    /\ Len(origin.parts.ids.list) = 2
    /\ Len(origin.parts.namespaceList) = 2
    /\ uri = rootPath \o origin.parts.namespaceList[1] \o <<"/">>
                      \o origin.parts.namespaceList[2] \o <<"/">>

\* C20: Split succeeds on every path of the grammar, in which segment,
\* model, id and action each use any character of the set, the apostrophe
\* included.
C20_SplitAcceptsGrammar ==
    (origin.kind = "path" /\ hist = <<"Split">>
        /\ InGrammar(rootPath, origin.path))
    => split.err = ErrNone

(***************************************************************************)
(* Claims about the protocol client, checked under SpecClient.             *)
(***************************************************************************)
\* request was called, sent its request and got a response
Answered == call.op # "none" /\ wire.sent /\ ~resp.transport

\* the response carries Multi-Object: True
RespMulti ==
    "Multi-Object" \in DOMAIN resp.hdr /\ resp.hdr["Multi-Object"] = "True"

\* C6: every response with status 400 makes request fail with an
\* InvalidRequest error carrying the message of the body, every response
\* with status 500 with a ServerError carrying the message and, when there
\* is one, the trace; no 400 or 500 response gives another kind of error or
\* a success.
C6_ErrorFromBody ==
    Answered =>
       /\ resp.status = 400 =>
             /\ ret.req.err.kind = "InvalidRequest"
             /\ resp.body.message.type = "string"
                   => ret.req.err.msg = resp.body.message.v
       /\ resp.status = 500 =>
             /\ ret.req.err.kind = "ServerError"
             /\ resp.body.message.type = "string"
                   => ret.req.err.msg = resp.body.message.v
             /\ (resp.body.message.type = "string"
                    /\ resp.body.trace.type = "string")
                   => ret.req.err.trace = resp.body.trace.v

\* C7: every response with status 401, 403 or 404 makes request fail with
\* InvalidSession, NotAuthorized or NotFound, whatever the body holds, and
\* the body is not given to the decoder.
C7_DedicatedErrors ==
    (Answered /\ resp.status \in {401, 403, 404}) =>
       /\ ret.req.err.kind =
             (IF resp.status = 401 THEN "InvalidSession"
              ELSE IF resp.status = 403 THEN "NotAuthorized"
              ELSE "NotFound")
       /\ ~ret.req.decoded

\* C7 witness: request has answered a 403 response whose body is not JSON
\* with NotAuthorized.
C7_Witness ==
    /\ Answered /\ call.op = "request"
    /\ resp.status = 403 /\ resp.body.json = "syntax"
    /\ ret.err.kind = "NotAuthorized"

\* C8: request returns a nil error only for a response with status 200, 201
\* or 202, and then returns that status; every status outside 200, 201,
\* 202, 400, 401, 403, 404 and 500 makes it fail with the unhandled-status
\* error that names the code.
C8_SuccessAndUnhandled ==
    call.op \in {"request", "Get"} =>
       /\ ret.req.err = NoErr =>
             /\ Answered
             /\ resp.status \in {200, 201, 202}
             /\ ret.req.code = resp.status
       /\ (Answered
              /\ resp.status \notin {200, 201, 202, 400, 401, 403, 404, 500})
             => /\ ret.req.err.kind = "Unhandled"
                /\ ret.req.err.code = resp.status

\* C8 witness: request has returned 202 and no error.
C8_Witness ==
    /\ Answered /\ call.op = "request"
    /\ resp.status = 202
    /\ ret.req.err = NoErr /\ ret.req.code = 202

\* the canonical names a layer of headers defines
Defines(layer) == {CanonicalKey(k) : k \in DOMAIN layer}

\* the values a layer gives to the canonical name h
ValuesOf(layer, h) == {layer[k] : k \in {n \in DOMAIN layer : CanonicalKey(n) = h}}

\* C9: for every header name, the value request sends comes from the
\* highest layer that defines it: the protocol's headers over the call's
\* extra headers over the client's default headers currently set.  No
\* default or extra header, however its name is spelled, changes a header of
\* the protocol, and a default header that is set reaches every request
\* unless a higher layer defines the same name.
C9_HeaderPrecedence ==
    (call.op = "request" /\ wire.sent) =>
       /\ DOMAIN wire.hdr =
             DOMAIN ProtocolHeaders \cup Defines(call.extra) \cup Defines(headers)
       /\ \A h \in DOMAIN wire.hdr :
             IF h \in DOMAIN ProtocolHeaders
             THEN wire.hdr[h] = ProtocolHeaders[h]
             ELSE IF h \in Defines(call.extra)
             THEN wire.hdr[h] \in ValuesOf(call.extra, h)
             ELSE wire.hdr[h] \in ValuesOf(headers, h)
       /\ \A k \in DOMAIN headers :
             CanonicalKey(k) \notin DOMAIN ProtocolHeaders \cup Defines(call.extra)
                => wire.hdr[CanonicalKey(k)] = headers[k]

\* C10: whenever the response to Get carries Multi-Object: True, Get
\* returns an error and a nil object; Get returns an object only for a
\* response with status 200 and without Multi-Object: True, and the URI of
\* the object is then the uri Get was called with.
C10_GetSingle ==
    call.op = "Get" =>
       /\ (Answered /\ RespMulti) => ret.err # NoErr /\ ret.obj = NilObject
       /\ ~ret.obj.nil =>
             /\ Answered /\ resp.status = 200 /\ ~RespMulti
             /\ ret.err = NoErr
             /\ ret.obj.uri = call.uri

\* C10 witness: Get has refused a response with status 200, a body that
\* decodes and Multi-Object: True.
C10_Witness ==
    /\ call.op = "Get" /\ Answered
    /\ resp.status = 200 /\ resp.body.json = "object" /\ RespMulti
    /\ ret.req.err = NoErr
    /\ ret.err.kind = "MultiObject" /\ ret.obj = NilObject

\* C11: Create returns success only if the status of the response is 201
\* and its Object-Id header parses as a path that carries exactly one id;
\* for every other Object-Id (none, not a path, a path without id list or
\* with two ids or more) Create returns an error and sets no URI on the
\* object.
C11_CreateOneId ==
    call.op = "Create" =>
       LET has == Answered /\ "Object-Id" \in DOMAIN resp.hdr
           p == IF has THEN resp.hdr["Object-Id"] ELSE <<>>
           oneId == /\ has
                    /\ Split(rootPath, p).err = ErrNone
                    /\ Len(GrammarIds(p)) = 1
       IN  /\ ret.err = NoErr => Answered /\ resp.status = 201 /\ oneId
           /\ ~oneId => ret.err # NoErr /\ ret.obj = NilObject

\* C19: Update and Call return an error whenever the response carries
\* Multi-Object: True; UpdateMulti and CallMulti send the request header
\* Multi-Object: True and return an error whenever the response does not
\* carry Multi-Object: True.
C19_MultiMode ==
    /\ call.op \in {"Update", "Call"} =>
          /\ (Answered /\ RespMulti) => ret.err # NoErr
          /\ ret.err = NoErr => Answered /\ ~RespMulti
    /\ call.op \in {"UpdateMulti", "CallMulti"} =>
          /\ wire.sent =>
                /\ "Multi-Object" \in DOMAIN wire.hdr
                /\ wire.hdr["Multi-Object"] = "True"
          /\ (Answered /\ ~RespMulti) => ret.err # NoErr
          /\ ret.err = NoErr => Answered /\ RespMulti

\* C19 witness: CallMulti has refused a response with status 200, a body
\* that decodes and Multi-Object: False, after sending Multi-Object: True.
C19_Witness ==
    /\ call.op = "CallMulti" /\ Answered
    /\ wire.hdr["Multi-Object"] = "True"
    /\ resp.status = 200 /\ resp.body.json = "object"
    /\ "Multi-Object" \in DOMAIN resp.hdr /\ resp.hdr["Multi-Object"] = "False"
    /\ ret.req.err = NoErr
    /\ ret.err.kind = "NoMulti"

(***************************************************************************)
(* Claims about listing, checked under SpecList.                           *)
(***************************************************************************)
\* ceil(n / c) for c >= 1
Ceil(n, c) == (n + c - 1) \div c

\* the producer of ListIds, called with a chunk size of 1 or more, has
\* closed the channel, no call of List failed and the server answered
\* every LIST with the items it had to give
ListIdsExhausted ==
    /\ kind = "ids" /\ chunkSize >= 1 /\ pc = "closed"
    /\ ~listFailed /\ ~misreported

\* C12: for a server that holds N items and answers every LIST with the
\* position asked for, at most chunk-size items and Total = N, ListIds with
\* chunk size C >= 1 makes exactly ceil(N/C) calls of List and publishes
\* all N items in the server's order, none repeated or skipped, before it
\* closes the channel; for every N >= 0 when no call fails and the consumer
\* receives every item.
C12_ListIdsPages ==
    ListIdsExhausted =>
       /\ fetches = Ceil(Len(held), chunkSize)
       /\ received = held

\* C12 as amended: the number of calls of List is ceil(N/C) for N >= 1 and
\* one for N = 0 (the first call is made before the total is known), all
\* items are published in order, and the channel is closed in the end
\* unless the consumer stops receiving or the server does not give its
\* items.
C12_ListIdsPagesAtLeastOne ==
    /\ [](ListIdsExhausted =>
            /\ fetches = (IF held = <<>> THEN 1 ELSE Ceil(Len(held), chunkSize))
            /\ received = held)
    /\ <>(kind # "ids" \/ pc = "closed" \/ abandoned \/ misreported)

\* C12 witness: three items were listed by chunks of two, in two calls.
C12_Witness ==
    /\ ListIdsExhausted
    /\ Len(held) = 3 /\ chunkSize = 2
    /\ fetches = 2
    /\ received = held

\* C13: once the context is cancelled or the consumer has stopped
\* receiving, the producer is never blocked for good: it has closed the
\* channel or it can take a step.
C13_ProducerStops ==
    (cancelled \/ abandoned) => (pc = "closed" \/ ENABLED Producer)

\* C14: once a call of List made by the producer has failed, the producer
\* makes no further call of List or Get and publishes no further item, and
\* it closes the channel; the consumer receives nothing but items the
\* server holds, no error among them.
C14_ListFailureEnds ==
    /\ [][listFailed =>
             /\ fetches' = fetches
             /\ gets' = gets
             /\ received' = received]_vars
    /\ (listFailed ~> pc = "closed")
    /\ [](\A i \in 1..Len(received) :
             \E j \in 1..Len(held) : received[i] = held[j])

\* C14 witness: a call of List failed after some but not all items were
\* published, and the channel is closed.
C14_Witness ==
    /\ listFailed /\ pc = "closed"
    /\ received # <<>>
    /\ Len(received) < Len(held)

(***************************************************************************)
(* The claims on the constructors.                                         *)
(***************************************************************************)
\* rootPath is not empty and both starts and ends with "/"
RootPathWellFormed(r) == r # <<>> /\ r[1] = "/" /\ r[Len(r)] = "/"

\* host starts with "http://" or "https://" and does not end with "/"
HostWellFormed(h) ==
    /\ HasPrefix(h, HttpPrefix) \/ HasPrefix(h, HttpsPrefix)
    /\ h[Len(h)] # "/"

\* C21: NewURI succeeds exactly for the root paths that are not empty and
\* both start and end with "/", and stores the rootPath as given; NewCInP
\* succeeds exactly when, moreover, host starts with "http://" or
\* "https://" and does not end with "/", and stores host as given; every
\* other input gives an error and no client.
C21_Constructors ==
    /\ made.op = "NewURI" =>
          /\ ~made.nil <=> RootPathWellFormed(given.rootPath)
          /\ ~made.nil => made.rootPath = given.rootPath /\ made.err = ErrNone
          /\ made.nil => made.err # ErrNone
    /\ made.op = "NewCInP" =>
          /\ ~made.nil <=> /\ RootPathWellFormed(given.rootPath)
                           /\ HostWellFormed(given.host)
          /\ ~made.nil => /\ made.host = given.host
                          /\ made.rootPath = given.rootPath
                          /\ made.err = ErrNone
          /\ made.nil => made.err # ErrNone

\* C22: in ListObjects, once the Get of an item has failed, the sequence
\* ends: no further item is published and no further page is fetched (and
\* the channel is closed).  Stated by its part on the steps after the
\* failure.
C22_GetFailureEnds ==
    [][kind = "objects" /\ getFailed =>
          /\ received' = received
          /\ fetches' = fetches]_vars

\* C23: the producers of ListIds and ListObjects call List for the next
\* page only when nothing of the page before is left to publish, the
\* consumer having received every item of the pages before (position of
\* them, when no call failed and the server gave its items), and the
\* producer never holds more than the one page it asked for.
C23_Backpressure ==
    /\ pc = "loop" => queue = <<>>
    /\ (pc = "loop" /\ ~listFailed /\ ~misreported /\ ~getFailed) =>
          /\ Len(received) = position
          /\ kind = "ids" => received = SubSeq(held, 1, position)
    /\ Len(queue) <= ChunkSize(chunkSize)

\* C23 witness: the first page of two items was received in full and the
\* second page, of the third item, is about to be asked for.
C23_Witness ==
    /\ pc = "loop" /\ fetches = 1 /\ position = 2 /\ total = 3
    /\ Len(received) = 2
    /\ ~abandoned

\* C28: ListIds always terminates: when the consumer keeps receiving and
\* every call of List returns, the producer closes the channel after
\* finitely many calls of List, whatever Position, Count and Total the
\* server reports (a page of Count 0 while Position < Total included).
C28_ListIdsTerminates ==
    (kind = "ids" /\ []~abandoned) => <>(pc = "closed")

(***************************************************************************)
(* The claim on the state shared by concurrent operations.                 *)
(***************************************************************************)
\* the fields of the client that the next step of the producer reads: a
\* call of List or Get reads host, headers and log in request, and Get
\* reads typeRegistry in newObject
ProducerReads ==
    IF ENABLED FetchAct THEN {"host", "headers", "log"}
    ELSE IF ENABLED GetItemAct THEN {"host", "headers", "log", "typeRegistry"}
    ELSE {}

\* the fields of the client that the call of the caller is about to write
CallerWrites ==
    IF caller = "RegisterType" THEN {"typeRegistry"} ELSE {}

\* C25: the default-header map is the only mutable state of the client
\* shared by operations that run concurrently: while the producer of
\* ListIds or ListObjects runs, no other call on the client (SetHeader
\* aside) writes a field of the client that the producer reads.
C25_NoSharedWrite ==
    (ProducerReads \cap CallerWrites) \ {"headers"} = {}

(***************************************************************************)
(* The claims on the operations of the client.                             *)
(***************************************************************************)
\* the operations on resources
ResourceOps ==
    {"Describe", "List", "Get", "Create", "Update", "UpdateMulti",
     "Delete", "DeleteURI", "Call", "CallMulti"}

\* the response carries the header h and it holds a number
RespNumber(h) == h \in DOMAIN resp.hdr /\ ~AtoiFails(resp.hdr[h])

\* C24: List with position < 0 or count < 0 returns an error and sends no
\* request; otherwise it sends position and count as the headers Position
\* and Count, and Filter when a filter name is given, and on a response of
\* status 200 it returns the position, count and total of the response
\* headers, not those it was called with, and fails when one of the three
\* headers is missing or no number.
C24_List ==
    call.op = "List" =>
       IF call.position < 0 \/ call.count < 0
       THEN ret.err # NoErr /\ ~wire.sent /\ sends = 0
       ELSE /\ wire.sent
            /\ wire.hdr["Position"] = Itoa(call.position)
            /\ wire.hdr["Count"] = Itoa(call.count)
            /\ "Filter" \in DOMAIN wire.hdr <=> call.filterName # ""
            /\ call.filterName # "" => wire.hdr["Filter"] = call.filterName
            /\ (Answered /\ resp.status = 200 /\ resp.body.json = "array") =>
                  IF RespNumber("Position") /\ RespNumber("Count")
                        /\ RespNumber("Total")
                  THEN /\ ret.err = NoErr
                       /\ ret.list.position = resp.hdr["Position"].v
                       /\ ret.list.count = resp.hdr["Count"].v
                       /\ ret.list.total = resp.hdr["Total"].v
                  ELSE ret.err # NoErr

\* C24 witness: List was called with position 1 and count 2 and returned
\* what the server reported: position 3, count 1 and total 7.
C24_Witness ==
    /\ call.op = "List" /\ call.position = 1 /\ call.count = 2
    /\ Answered /\ resp.status = 200
    /\ ret.err = NoErr
    /\ ret.list.position = 3 /\ ret.list.count = 1 /\ ret.list.total = 7

\* C26: a call of Describe, List, Get, Create, Update, UpdateMulti, Delete,
\* DeleteURI, Call or CallMulti makes one HTTP request at most, whatever
\* comes of it, and an error returned by request is the error the call
\* returns.
C26_OneRequest ==
    call.op \in ResourceOps =>
       /\ sends <= 1
       /\ ret.req.err # NoErr => ret.err = ret.req.err

\* C26 witness: Describe got a response of status 503, made no second
\* request and returned the error of request.
C26_Witness ==
    /\ call.op = "Describe" /\ Answered /\ resp.status = 503
    /\ sends = 1
    /\ ret.err.kind = "Unhandled"

\* C27: for a response of status 400 or 500, whatever its body, request
\* returns an error: it does not panic and does not return success.
C27_ErrorOn400And500 ==
    (Answered /\ resp.status \in {400, 500}) =>
       ret.req.err.kind \notin {"nil", "panic"}

\* the object of the caller as it was given to Create or Update
ObjectGiven ==
    Object(IF call.op = "Create" THEN <<>> ELSE call.uri, CallerData)

\* C29: when Create or Update returns an error, the object of the caller
\* is as it was before the call, its URI and its field data.
C29_ObjectKeptOnError ==
    (call.op \in {"Create", "Update"} /\ ret.err # NoErr) =>
       object = ObjectGiven

\* C30: request takes 200, 201 and 202 for a success, but each operation
\* accepts one status: Create returns an error unless the status is 201
\* and the other operations return an error unless it is 200.
C30_OneStatus ==
    (call.op \in ResourceOps /\ ret.err = NoErr) =>
       /\ Answered
       /\ resp.status = (IF call.op = "Create" THEN 201 ELSE 200)

\* C30 witness: request returned the status 202 without error to Delete,
\* which returned an error.
C30_Witness ==
    /\ call.op = "Delete" /\ Answered /\ resp.status = 202
    /\ ret.req.err = NoErr /\ ret.req.code = 202
    /\ ret.err.kind = "UnexpectedCode"

=============================================================================
